---- MODULE Spec2Model ----
(***************************************************************************)
(* Model of the Shopify detector of src/main.py: normalize_candidates,     *)
(* try_cart_json and the candidate loop of is_shopify_site.                *)
(*                                                                         *)
(* Python strings are sequences of one-character strings, so that strip,   *)
(* lower, startswith, replace, the regular expressions and urlparse are    *)
(* computed character by character as the code computes them. The          *)
(* characters are those from U+0001 to U+00FF.                             *)
(***************************************************************************)
EXTENDS Integers, Sequences, FiniteSets, TLC

\* ------------------------------------------------------------------------
\* Bounds
\* ------------------------------------------------------------------------

\* Inputs of the normalizer are concatenations of at most MaxPieces pieces.
MaxPieces == 3

\* ------------------------------------------------------------------------
\* Python string primitives
\* ------------------------------------------------------------------------

\* str.lower() on one character.
LowerChar(c) ==
  CASE c = "A" -> "a" [] c = "B" -> "b" [] c = "C" -> "c" [] c = "D" -> "d"
    [] c = "E" -> "e" [] c = "F" -> "f" [] c = "G" -> "g" [] c = "H" -> "h"
    [] c = "I" -> "i" [] c = "J" -> "j" [] c = "K" -> "k" [] c = "L" -> "l"
    [] c = "M" -> "m" [] c = "N" -> "n" [] c = "O" -> "o" [] c = "P" -> "p"
    [] c = "Q" -> "q" [] c = "R" -> "r" [] c = "S" -> "s" [] c = "T" -> "t"
    [] c = "U" -> "u" [] c = "V" -> "v" [] c = "W" -> "w" [] c = "X" -> "x"
    [] c = "Y" -> "y" [] c = "Z" -> "z" [] c = "À" -> "à" [] c = "Á" -> "á"
    [] c = "Â" -> "â" [] c = "Ã" -> "ã" [] c = "Ä" -> "ä" [] c = "Å" -> "å"
    [] c = "Æ" -> "æ" [] c = "Ç" -> "ç" [] c = "È" -> "è" [] c = "É" -> "é"
    [] c = "Ê" -> "ê" [] c = "Ë" -> "ë" [] c = "Ì" -> "ì" [] c = "Í" -> "í"
    [] c = "Î" -> "î" [] c = "Ï" -> "ï" [] c = "Ð" -> "ð" [] c = "Ñ" -> "ñ"
    [] c = "Ò" -> "ò" [] c = "Ó" -> "ó" [] c = "Ô" -> "ô" [] c = "Õ" -> "õ"
    [] c = "Ö" -> "ö" [] c = "Ø" -> "ø" [] c = "Ù" -> "ù" [] c = "Ú" -> "ú"
    [] c = "Û" -> "û" [] c = "Ü" -> "ü" [] c = "Ý" -> "ý" [] c = "Þ" -> "þ"
    [] OTHER -> c

\* str.lower()
lower(s) == [i \in 1..Len(s) |-> LowerChar(s[i])]

\* str.startswith(prefix)
startswith(s, prefix) ==
  /\ Len(prefix) <= Len(s)
  /\ SubSeq(s, 1, Len(prefix)) = prefix

\* Characters removed by str.strip() with no argument: those for which
\* str.isspace() holds, up to U+00FF (tab, LF, VT, FF, CR, U+001C to
\* U+001F, space, U+0085 and U+00A0).
Whitespace ==
  {"\t", "\n", "", "\f", "\r", "", "", "", "", " ", "", " "}

\* s[i:] for a 1-based index i.
From(s, i) == SubSeq(s, i, Len(s))

\* c in s
Contains(s, c) == \E i \in 1..Len(s) : s[i] = c

\* Position of the first character of s that is in chars, Len(s) + 1 when
\* there is none.
FirstIn(s, chars) ==
  LET hits == {i \in 1..Len(s) : s[i] \in chars}
  IN IF hits = {} THEN Len(s) + 1
     ELSE CHOOSE i \in hits : \A j \in hits : i <= j

\* str.lstrip(chars): drop the leading characters in chars.
lstrip_chars(s, chars) ==
  LET keep == {i \in 1..Len(s) : s[i] \notin chars}
  IN IF keep = {} THEN <<>>
     ELSE From(s, CHOOSE i \in keep : \A j \in keep : i <= j)

\* str.strip(chars): drop the leading and the trailing characters in chars.
strip_chars(s, chars) ==
  LET keep == {i \in 1..Len(s) : s[i] \notin chars}
      Min(S) == CHOOSE x \in S : \A y \in S : x <= y
      Max(S) == CHOOSE x \in S : \A y \in S : x >= y
  IN IF keep = {} THEN <<>> ELSE SubSeq(s, Min(keep), Max(keep))

\* Position of the first occurrence of sub in s, 0 when there is none
\* (str.find, 1-based).
find(s, sub) ==
  LET hits == {i \in 1..(Len(s) - Len(sub) + 1) :
                 SubSeq(s, i, i + Len(sub) - 1) = sub}
  IN IF hits = {} THEN 0 ELSE CHOOSE i \in hits : \A j \in hits : i <= j

\* str.replace(old, new, 1): replace the first occurrence only.
replace_first(s, old, new) ==
  LET i == find(s, old)
  IN IF i = 0 THEN s
     ELSE SubSeq(s, 1, i - 1) \o new \o From(s, i + Len(old))

\* str.split(c) on a one-character separator.
RECURSIVE split(_, _)
split(s, c) ==
  LET i == FirstIn(s, {c})
  IN IF i > Len(s) THEN <<s>>
     ELSE <<SubSeq(s, 1, i - 1)>> \o split(From(s, i + 1), c)

\* ------------------------------------------------------------------------
\* String literals of the source
\* ------------------------------------------------------------------------

s_https == <<"h","t","t","p","s",":","/","/">>      \* "https://"
s_http  == <<"h","t","t","p",":","/","/">>          \* "http://"
s_www   == <<"w","w","w",".">>                      \* "www."
s_slash == <<"/">>                                  \* "/"

\* ------------------------------------------------------------------------
\* urllib.parse, as main.py uses it (lines 5, 41 and 76)
\* ------------------------------------------------------------------------

Digits == {"0","1","2","3","4","5","6","7","8","9"}

HexDigits ==
  Digits \cup {"a","b","c","d","e","f","A","B","C","D","E","F"}

AsciiLetters ==
  {"a","b","c","d","e","f","g","h","i","j","k","l","m","n","o","p","q","r",
   "s","t","u","v","w","x","y","z","A","B","C","D","E","F","G","H","I","J",
   "K","L","M","N","O","P","Q","R","S","T","U","V","W","X","Y","Z"}

\* urllib.parse.scheme_chars
scheme_chars == AsciiLetters \cup Digits \cup {"+", "-", "."}

\* The leading characters urlsplit strips from a URL: C0 controls and space.
C0ControlOrSpace ==
  {"", "", "", "", "", "", "", "", "\t", "\n", "", "\f", "\r", "",
   "", "", "", "", "", "", "", "", "", "", "", "", "", "",
   "", "", "", " "}

\* urllib.parse.uses_relative, the schemes urljoin resolves against; all of
\* them are in uses_netloc too.
uses_relative ==
  { <<>>, <<"f","t","p">>, <<"h","t","t","p">>, <<"g","o","p","h","e","r">>,
    <<"n","n","t","p">>, <<"i","m","a","p">>, <<"w","a","i","s">>,
    <<"f","i","l","e">>, <<"h","t","t","p","s">>, <<"s","h","t","t","p">>,
    <<"m","m","s">>, <<"p","r","o","s","p","e","r","o">>,
    <<"r","t","s","p">>, <<"r","t","s","p","s">>, <<"r","t","s","p","u">>,
    <<"s","f","t","p">>, <<"s","v","n">>, <<"s","v","n","+","s","s","h">>,
    <<"w","s">>, <<"w","s","s">> }

\* urllib.parse.uses_params, the schemes whose path carries ";parameters".
uses_params ==
  { <<>>, <<"f","t","p">>, <<"h","d","l">>,
    <<"p","r","o","s","p","e","r","o">>, <<"h","t","t","p">>,
    <<"i","m","a","p">>, <<"h","t","t","p","s">>, <<"s","h","t","t","p">>,
    <<"r","t","s","p">>, <<"r","t","s","p","s">>, <<"r","t","s","p","u">>,
    <<"s","i","p">>, <<"s","i","p","s">>, <<"m","m","s">>,
    <<"s","f","t","p">>, <<"t","e","l">> }

DigitVal(c) ==
  CASE c = "0" -> 0 [] c = "1" -> 1 [] c = "2" -> 2 [] c = "3" -> 3
    [] c = "4" -> 4 [] c = "5" -> 5 [] c = "6" -> 6 [] c = "7" -> 7
    [] c = "8" -> 8 [] c = "9" -> 9 [] OTHER -> 0

\* ipaddress.IPv4Address._parse_octet accepts the string: one to three
\* decimal digits, no leading zero, at most 255.
parse_octet_ok(o) ==
  /\ o # <<>>
  /\ \A i \in 1..Len(o) : o[i] \in Digits
  /\ Len(o) <= 3
  /\ o = <<"0">> \/ o[1] # "0"
  /\ LET F[i \in 0..Len(o)] ==
           IF i = 0 THEN 0 ELSE 10 * F[i - 1] + DigitVal(o[i])
     IN F[Len(o)] <= 255

\* ipaddress.IPv4Address accepts the string: four octets.
IPv4Address_ok(s) ==
  /\ s # <<>>
  /\ ~Contains(s, "/")
  /\ LET octets == split(s, ".")
     IN /\ Len(octets) = 4
        /\ \A i \in 1..4 : parse_octet_ok(octets[i])

\* ipaddress.IPv6Address._parse_hextet accepts the string: one to four
\* hexadecimal digits.
parse_hextet_ok(h) ==
  /\ h # <<>>
  /\ \A i \in 1..Len(h) : h[i] \in HexDigits
  /\ Len(h) <= 4

\* ipaddress.IPv6Address._ip_int_from_string on the parts between colons,
\* an IPv4 suffix already replaced by two parts: at most nine parts, at
\* most one "::", which may stand for a leading or trailing empty part,
\* eight parts in all once "::" is expanded, each part a hextet.
hextets_ok(parts) ==
  LET n        == Len(parts)
      skips    == {i \in 2..(n - 1) : parts[i] = <<>>}
      skip     == CHOOSE i \in skips : TRUE
      parts_hi == IF parts[1] = <<>> THEN skip - 2 ELSE skip - 1
      parts_lo == IF parts[n] = <<>> THEN n - skip - 1 ELSE n - skip
  IN /\ n <= 9
     /\ Cardinality(skips) <= 1
     /\ IF skips # {}
          THEN /\ parts[1] = <<>> => parts_hi = 0
               /\ parts[n] = <<>> => parts_lo = 0
               /\ 8 - (parts_hi + parts_lo) >= 1
               /\ \A i \in 1..parts_hi : parse_hextet_ok(parts[i])
               /\ \A i \in (n - parts_lo + 1)..n : parse_hextet_ok(parts[i])
          ELSE /\ n = 8
               /\ \A i \in 1..n : parse_hextet_ok(parts[i])

\* ipaddress.IPv6Address accepts the string: an optional "%scope", three to
\* nine parts between colons, an optional IPv4 suffix counting for two
\* parts.
IPv6Address_ok(s) ==
  LET pct   == FirstIn(s, {"%"})
      scope == From(s, pct + 1)
  IN /\ ~Contains(s, "/")
     /\ pct <= Len(s) => (scope # <<>> /\ ~Contains(scope, "%"))
     /\ pct > 1
     /\ \E parts0 \in {split(SubSeq(s, 1, pct - 1), ":")} :
          /\ Len(parts0) >= 3
          /\ \E last \in {parts0[Len(parts0)]} :
               IF Contains(last, ".")
                 THEN /\ IPv4Address_ok(last)
                      /\ \E parts \in {SubSeq(parts0, 1, Len(parts0) - 1)
                                        \o << <<"0">>, <<"0">> >>} :
                           hextets_ok(parts)
                 ELSE hextets_ok(parts0)

\* urllib.parse._check_bracketed_host accepts the text between "[" and
\* "]": an IPvFuture address ("v", hexadecimal digits, ".", and more) or an
\* IPv6 address.
check_bracketed_host_ok(hostname) ==
  IF startswith(hostname, <<"v">>)
    THEN \E p \in {1 + FirstIn(From(hostname, 2),
                               {hostname[i] : i \in 1..Len(hostname)}
                                 \ HexDigits)} :
           p >= 3 /\ p < Len(hostname) /\ hostname[p] = "."
    ELSE IPv6Address_ok(hostname)

\* s.partition(c)[0] and s.partition(c)[2]
partition_head(s, c) == SubSeq(s, 1, FirstIn(s, {c}) - 1)
partition_tail(s, c) == From(s, FirstIn(s, {c}) + 1)

\* urlsplit raises ValueError on a netloc with an unmatched bracket, or
\* with brackets around something that is no IPv6 or IPvFuture address.
netloc_raises(netloc) ==
  \/ Contains(netloc, "[") /\ ~Contains(netloc, "]")
  \/ Contains(netloc, "]") /\ ~Contains(netloc, "[")
  \/ /\ Contains(netloc, "[")
     /\ Contains(netloc, "]")
     /\ ~check_bracketed_host_ok(
           partition_head(partition_tail(netloc, "["), "]"))

\* urlsplit, first step: leading C0 controls and spaces are stripped, and
\* tab, CR and LF removed.
url_clean(url0) ==
  SelectSeq(lstrip_chars(url0, C0ControlOrSpace),
            LAMBDA c : c \notin {"\t", "\r", "\n"})

\* Position of the ":" that ends the scheme, 0 when the URL has no scheme:
\* a scheme is a letter followed by scheme characters up to the first ":".
scheme_end(url) ==
  LET i == find(url, <<":">>)
  IN IF /\ i > 1
        /\ url[1] \in AsciiLetters
        /\ \A k \in 1..(i - 1) : url[k] \in scheme_chars
       THEN i ELSE 0

\* urlsplit, the scheme, lowered, and what follows it.
split_scheme(url) ==
  LET i == scheme_end(url)
  IN IF i > 0
       THEN [scheme |-> lower(SubSeq(url, 1, i - 1)),
             rest   |-> From(url, i + 1)]
       ELSE [scheme |-> <<>>, rest |-> url]

\* urllib.parse._splitnetloc(url, 2): the netloc runs from after "//" to
\* the first of "/", "?", "#".
splitnetloc(url) ==
  [netloc |-> SubSeq(url, 3, FirstIn(From(url, 3), {"/", "?", "#"}) + 1),
   rest   |-> From(url, FirstIn(From(url, 3), {"/", "?", "#"}) + 2)]

\* urlsplit, the netloc, present when the URL goes on with "//".
split_netloc(url) ==
  IF startswith(url, <<"/", "/">>) THEN splitnetloc(url)
  ELSE [netloc |-> <<>>, rest |-> url]

\* urlsplit, the result: the path runs to the first "?" or "#".
SplitResult(scheme, n) ==
  [raised |-> netloc_raises(n.netloc),
   scheme |-> scheme,
   netloc |-> n.netloc,
   path   |-> SubSeq(n.rest, 1, FirstIn(n.rest, {"?", "#"}) - 1)]

\* urllib.parse.urlsplit(url)
urlsplit(url0) ==
  LET s == split_scheme(url_clean(url0))
  IN SplitResult(s.scheme, split_netloc(s.rest))

\* urllib.parse._splitparams: the path without the ";parameters" of its
\* last segment.
splitparams(url) ==
  LET slashes == {i \in 1..Len(url) : url[i] = "/"}
      rfind   == IF slashes = {} THEN 1
                 ELSE CHOOSE i \in slashes : \A j \in slashes : i >= j
  IN SubSeq(url, 1, rfind - 2 + FirstIn(From(url, rfind), {";"}))

\* urlparse, the result: the parameters are split off the path for the
\* schemes that have them.
ParseResult(p) ==
  [raised |-> p.raised,
   scheme |-> p.scheme,
   netloc |-> p.netloc,
   path   |-> IF p.scheme \in uses_params /\ Contains(p.path, ";")
                THEN splitparams(p.path) ELSE p.path]

\* urllib.parse.urlparse(url)
urlparse(url) == ParseResult(urlsplit(url))

\* ------------------------------------------------------------------------
\* normalize_candidates
\* ------------------------------------------------------------------------

\* re.match(r"^https?://", raw, re.I)
re_match_scheme(raw) ==
  \/ startswith(lower(raw), s_https)
  \/ startswith(lower(raw), s_http)

\* Lines 37-40: complete the scheme.
raw_https(raw) ==
  IF ~re_match_scheme(raw) THEN s_https \o raw ELSE raw

\* Lines 41-43: host = (p.netloc or p.path).strip("/")
netloc_or_path(p) == IF p.netloc # <<>> THEN p.netloc ELSE p.path
host_of(raw) == strip_chars(netloc_or_path(urlparse(raw_https(raw))), {"/"})

\* base_hosts as it would be if both branches of line 47 ran.
base_hosts_both(host) ==
  {host, s_www \o host, replace_first(host, s_www, <<>>)}

\* Lines 46-50: the set of the host and its www-counterpart.
base_hosts(host) ==
  IF ~startswith(host, s_www)
    THEN {host, s_www \o host}
    ELSE {host, replace_first(host, s_www, <<>>)}

\* The orders in which a Python set of strings can be iterated: the order
\* depends on the string hashes, which are salted per process, so every
\* enumeration of the set is a possible one.
SetOrders(S) ==
  {f \in [1..Cardinality(S) -> S] : \A x \in S : \E i \in DOMAIN f : f[i] = x}

\* build_candidates as it would be with the two schemes swapped.
RECURSIVE build_candidates_http_first(_)
build_candidates_http_first(hs) ==
  IF hs = <<>> THEN <<>>
  ELSE << s_http \o Head(hs) \o s_slash, s_https \o Head(hs) \o s_slash >>
       \o build_candidates_http_first(Tail(hs))

\* Lines 52-54: two URLs per host, https first.
RECURSIVE build_candidates(_)
build_candidates(hs) ==
  IF hs = <<>> THEN <<>>
  ELSE << s_https \o Head(hs) \o s_slash, s_http \o Head(hs) \o s_slash >>
       \o build_candidates(Tail(hs))

\* Lines 56-60: drop repeated URLs, keeping the first occurrence.
uniq(cs) ==
  LET first == {i \in 1..Len(cs) : \A j \in 1..(i - 1) : cs[j] # cs[i]}
      F[i \in 0..Len(cs)] ==
        IF i = 0 THEN <<>>
        ELSE IF i \in first THEN Append(F[i - 1], cs[i]) ELSE F[i - 1]
  IN F[Len(cs)]

\* strip as it would be if the whitespace were kept.
strip_kept(raw) == raw

\* Line 34: raw.strip()
strip(raw) == strip_chars(raw, Whitespace)

\* normalize_candidates raises when urlparse does (line 41 is not guarded).
normalize_raises(raw0) ==
  LET raw == strip(raw0)
  IN raw # <<>> /\ urlparse(raw_https(raw)).raised

\* Lines 33-60: the lists normalize_candidates can return on an input it
\* does not raise on, one for every iteration order of base_hosts.
normalize_candidates(raw0) ==
  LET raw == strip(raw0)
  IN IF raw = <<>> THEN {<<>>}
     ELSE IF host_of(raw) = <<>> THEN {<<>>}
     ELSE {uniq(build_candidates(hs)) :
             hs \in SetOrders(base_hosts(host_of(raw)))}

\* ------------------------------------------------------------------------
\* Signals of one response
\* ------------------------------------------------------------------------

s_x_shopify == <<"x","-","s","h","o","p","i","f","y","-">>
                                                    \* "x-shopify-"
s__shopify  == <<"_","s","h","o","p","i","f","y">>      \* "_shopify"

\* Line 103: the header names that start with "x-shopify-" once lowered.
shopify_headers(r) ==
  SelectSeq(r.headers, LAMBDA k : startswith(lower(k), s_x_shopify))

\* Line 114: the cookie names that start with "_shopify" once lowered.
shopify_cookies(r) ==
  SelectSeq(r.cookies, LAMBDA k : startswith(lower(k), s__shopify))

\* Characters matched by \w: letters, digits and the underscore.
WordChars ==
  {"a","b","c","d","e","f","g","h","i","j","k","l","m","n","o","p","q","r",
   "s","t","u","v","w","x","y","z","A","B","C","D","E","F","G","H","I","J",
   "K","L","M","N","O","P","Q","R","S","T","U","V","W","X","Y","Z","0","1",
   "2","3","4","5","6","7","8","9","_",
   "ª","²","³","µ","¹","º","¼","½","¾","À","Á","Â","Ã","Ä","Å","Æ","Ç","È",
   "É","Ê","Ë","Ì","Í","Î","Ï","Ð","Ñ","Ò","Ó","Ô","Õ","Ö","Ø","Ù","Ú","Û",
   "Ü","Ý","Þ","ß","à","á","â","ã","ä","å","æ","ç","è","é","ê","ë","ì","í",
   "î","ï","ð","ñ","ò","ó","ô","õ","ö","ø","ù","ú","û","ü","ý","þ","ÿ"}

\* Lines 24-30: the marker patterns, each a literal with an optional \b
\* before and after it.
BODY_MARKERS == <<
  [lit |-> <<"c","d","n",".","s","h","o","p","i","f","y",".","c","o","m">>,
   wb_before |-> FALSE, wb_after |-> FALSE],        \* cdn\.shopify\.com
  [lit |-> <<"m","y","s","h","o","p","i","f","y",".","c","o","m">>,
   wb_before |-> TRUE, wb_after |-> TRUE],          \* \bmyshopify\.com\b
  [lit |-> <<"w","i","n","d","o","w",".","S","h","o","p","i","f","y">>,
   wb_before |-> FALSE, wb_after |-> TRUE],         \* window\.Shopify\b
  [lit |-> <<"S","h","o","p","i","f","y",".","t","h","e","m","e">>,
   wb_before |-> FALSE, wb_after |-> TRUE],         \* Shopify\.theme\b
  [lit |-> <<"s","h","o","p","i","f","y","-","d","i","g","i","t","a","l","-","w","a","l","l","e","t">>,
   wb_before |-> FALSE, wb_after |-> FALSE] >>      \* shopify-digital-wallet

\* re.search(pat, text, re.I) for one marker pattern. Every literal starts
\* and ends with a word character, so \b asks for a non-word neighbour or
\* the end of the text.
re_search(pat, text) ==
  LET n == Len(pat.lit)
      t == lower(text)
  IN \E i \in 1..(Len(text) - n + 1) :
       /\ SubSeq(t, i, i + n - 1) = lower(pat.lit)
       /\ pat.wb_before => (i = 1 \/ text[i - 1] \notin WordChars)
       /\ pat.wb_after => (i + n - 1 = Len(text) \/ text[i + n] \notin WordChars)

\* Lines 68-73: the patterns found in the text, in pattern order.
check_body_markers(text) ==
  LET hit == SelectSeq([i \in 1..Len(BODY_MARKERS) |-> i],
                       LAMBDA i : re_search(BODY_MARKERS[i], text))
  IN [j \in 1..Len(hit) |-> BODY_MARKERS[hit[j]].lit]

\* ------------------------------------------------------------------------
\* try_cart_json
\* ------------------------------------------------------------------------

s_cart_js  == <<"/","c","a","r","t",".","j","s">>       \* "/cart.js"
s_app_json == <<"a","p","p","l","i","c","a","t","i","o","n","/","j","s","o","n">>
                                                    \* "application/json"
s_items      == <<"i","t","e","m","s">>                \* "items"
s_token      == <<"t","o","k","e","n">>                \* "token"
s_attributes == <<"a","t","t","r","i","b","u","t","e","s">>
                                                    \* "attributes"

\* urljoin, once the base is parsed: the scheme and the netloc of the base,
\* then the absolute path; a base whose scheme is not in uses_relative
\* gives "/cart.js" alone.
join_cart(b) ==
  IF b.raised THEN [raised |-> TRUE, url |-> <<>>]
  ELSE IF b.scheme \notin uses_relative
    THEN [raised |-> FALSE, url |-> s_cart_js]
  ELSE [raised |-> FALSE,
        url |-> (IF b.scheme # <<>> THEN b.scheme \o <<":">> ELSE <<>>)
                \o (IF b.netloc # <<>> \/ b.scheme # <<>>
                      THEN <<"/", "/">> \o b.netloc ELSE <<>>)
                \o s_cart_js]

\* urllib.parse.urljoin(final_url, "/cart.js"), line 76. An empty base
\* gives "/cart.js"; a base urlparse raises on makes urljoin raise.
urljoin_cart(final_url) ==
  IF final_url = <<>> THEN [raised |-> FALSE, url |-> s_cart_js]
  ELSE join_cart(urlparse(final_url))

\* The evidence notes. The code formats each as a text; a note keeps the
\* kind of the text and the values formatted into it.
Note(kind, url, names, status) ==
  [kind |-> kind, url |-> url, names |-> names, status |-> status]

\* What a call of try_cart_json does: it raises, or it returns the pair
\* (ok, message).
CartResult(raised, ok, reason) ==
  [raised |-> raised, ok |-> ok, reason |-> reason]

\* cart_get as it would be if only the key "items" counted.
cart_get_items_only(cart_url, c) ==
  IF ~c.err /\ c.status = 200
     /\ startswith(lower(c.ctype), s_app_json)
     /\ c.json.parses /\ c.json.is_dict /\ s_items \in c.json.keys
    THEN CartResult(FALSE, TRUE, Note("cart_ok", cart_url, <<>>, 0))
    ELSE CartResult(FALSE, FALSE, Note("cart_error", <<>>, <<>>, 0))

\* cart_get as it would be if the Content-Type were not looked at.
cart_get_any_type(cart_url, c) ==
  IF c.err THEN CartResult(FALSE, FALSE, Note("cart_error", <<>>, <<>>, 0))
  ELSE IF c.status = 200 /\ ~c.json.parses
    THEN CartResult(FALSE, FALSE, Note("cart_error", <<>>, <<>>, 0))
  ELSE IF /\ c.status = 200
          /\ c.json.is_dict
          /\ \/ s_items \in c.json.keys
             \/ s_token \in c.json.keys
             \/ s_attributes \in c.json.keys
    THEN CartResult(FALSE, TRUE, Note("cart_ok", cart_url, <<>>, 0))
  ELSE CartResult(FALSE, FALSE,
                  Note("cart_negative", <<>>, <<lower(c.ctype)>>, c.status))

\* Lines 77-92: the GET of cart_url and what is made of it. c is what the
\* GET does: it fails (c.err), or it answers with a status, a Content-Type
\* and a body that json() parses or not. Every exception is caught and
\* comes back as the pair (False, message).
cart_get(cart_url, c) ==
  IF c.err THEN CartResult(FALSE, FALSE, Note("cart_error", <<>>, <<>>, 0))
  ELSE IF c.status = 200 /\ startswith(lower(c.ctype), s_app_json)
          /\ ~c.json.parses
    THEN CartResult(FALSE, FALSE, Note("cart_error", <<>>, <<>>, 0))
  ELSE IF /\ c.status = 200 /\ startswith(lower(c.ctype), s_app_json)
          /\ c.json.is_dict
          /\ \/ s_items \in c.json.keys
             \/ s_token \in c.json.keys
             \/ s_attributes \in c.json.keys
    THEN CartResult(FALSE, TRUE, Note("cart_ok", cart_url, <<>>, 0))
  ELSE CartResult(FALSE, FALSE,
                  Note("cart_negative", <<>>, <<lower(c.ctype)>>, c.status))

\* try_cart_json, once urljoin (line 76) is through: urljoin stands before
\* the try of line 77, so when it raises the exception leaves
\* try_cart_json.
try_cart_json_at(cart_url, c) ==
  IF cart_url.raised
    THEN CartResult(TRUE, FALSE, Note("raised", <<>>, <<>>, 0))
    ELSE cart_get(cart_url.url, c)

\* Lines 75-92: try_cart_json(final_url), with c what the GET does.
try_cart_json(final_url, c) ==
  try_cart_json_at(urljoin_cart(final_url), c)

\* ------------------------------------------------------------------------
\* The network
\* ------------------------------------------------------------------------

h_server == <<"S","e","r","v","e","r">>           \* "Server"
h_near   == <<"X","-","S","h","o","p","i","f","y">>   \* "X-Shopify"
h_stage  == <<"x","-","S","H","O","P","I","F","Y","-","S","t","a","g","e">>
                                                    \* "x-SHOPIFY-Stage"
c_near   == <<"s","h","o","p","i","f","y","_","s","i","d">>
                                                    \* "shopify_sid"
c_sid    == <<"s","i","d">>                          \* "sid"
c_y      == <<"_","S","h","o","p","i","f","y","_","y">> \* "_Shopify_y"
b_near   == <<"a","m","y","s","h","o","p","i","f","y",".","c","o","m">>
                                                    \* "amyshopify.com"
b_cdn    == <<"/","/","C","D","N",".","s","h","o","p","i","f","y",".","c","o","m">>
                                                    \* "//CDN.shopify.com"
ct_json  == s_app_json
ct_JSON  == <<"A","p","p","l","i","c","a","t","i","o","n","/","J","S","O","N",";"," ","c","h","a","r","s","e","t","=","u","t","f","-","8">>
                                              \* "Application/JSON; charset=utf-8"
ct_html  == <<"t","e","x","t","/","h","t","m","l">>
                                                    \* "text/html"
k_total  == <<"t","o","t","a","l">>                \* "total"
u_redirect == <<"h","t","t","p","s",":","/","/","b","/","x">>
                                                    \* "https://b/x"

\* Header names, cookie names and body texts a response can carry.
HeaderSets == { <<h_server, h_near>>, <<h_server, h_stage>> }
CookieSets == { <<c_near>>, <<c_sid, c_y>> }
Bodies     == { <<>>, b_near, b_cdn }

\* What fetch(candidate) can do: raise (err), or return a response whose
\* final URL is the candidate or the target of a redirect.
ProbeError == [err |-> TRUE, url |-> <<>>, headers |-> <<>>,
               cookies |-> <<>>, text |-> <<>>]
ProbeOutcomes(candidate) ==
  {ProbeError} \cup
  [err : {FALSE}, url : {candidate, u_redirect}, headers : HeaderSets,
   cookies : CookieSets, text : Bodies]

\* What json() can make of the body of /cart.js: no JSON, a list, or an
\* object with the given keys.
JsonToken == [parses |-> TRUE, is_dict |-> TRUE, keys |-> {s_token}]
JsonBodies ==
  { [parses |-> FALSE, is_dict |-> FALSE, keys |-> {}],
    [parses |-> TRUE, is_dict |-> FALSE, keys |-> {s_token}],
    [parses |-> TRUE, is_dict |-> TRUE, keys |-> {k_total}],
    JsonToken,
    [parses |-> TRUE, is_dict |-> TRUE, keys |-> {s_items, k_total}],
    [parses |-> TRUE, is_dict |-> TRUE, keys |-> {s_attributes}] }

\* What the GET of /cart.js can do: fail, or answer. The answers are every
\* body under a passing status and type, and every status and type around
\* a body that would pass.
CartError == [err |-> TRUE, status |-> 0, ctype |-> <<>>,
              json |-> [parses |-> FALSE, is_dict |-> FALSE, keys |-> {}]]
CartOutcomes ==
  {CartError}
  \cup [err : {FALSE}, status : {200}, ctype : {ct_JSON}, json : JsonBodies]
  \cup [err : {FALSE}, status : {200, 404}, ctype : {ct_json, ct_html},
        json : {JsonToken}]

\* No /cart.js request was made for the candidate.
NoCart == [err |-> FALSE, status |-> 0, ctype |-> <<>>,
           json |-> [parses |-> FALSE, is_dict |-> FALSE, keys |-> {}]]

\* ------------------------------------------------------------------------
\* Inputs
\* ------------------------------------------------------------------------

\* The pieces inputs are made of.
Pieces ==
  { s_https, s_http, <<"H","T","T","P",":","/","/">>, s_www,
    <<"W","W","W",".">>, <<"a">>, <<"/">>, <<" ">>, <<"[">>, <<"?">>,
    <<"]">>, <<";">>, <<"\f">>, <<"[", ":", ":", "1", "]">> }

RECURSIVE Concat(_)
Concat(ps) == IF ps = <<>> THEN <<>> ELSE Head(ps) \o Concat(Tail(ps))

\* Every concatenation of at most n pieces.
InputsUpTo(n) ==
  UNION { {Concat(ps) : ps \in [1..k -> Pieces]} : k \in 0..n }

\* Inputs of the normalizer.
NormInputs == InputsUpTo(MaxPieces)

\* Inputs of a detection run: empty, blank, unparseable (an unmatched
\* bracket, brackets around no IP address), without host, and hosts with
\* and without scheme and "www.", one of them an IPv6 address. All the
\* candidates they give are URLs urlparse accepts.
EngineInputs ==
  { <<>>, <<" ">>, <<"\f", " ">>, <<"[">>, <<"[", "a", "]">>, s_https,
    <<" ", "a">>, <<"[", ":", ":", "1", "]">>,
    <<"H","T","T","P",":","/","/">> \o s_www \o <<"a", "/">> }

\* Final URLs try_cart_json is called with: r.url of a response that
\* requests.get returned (lines 100, 108, 127). requests gives it with the
\* scheme http or https in lower case, a host it could connect to and a
\* path that begins with "/"; here with and without port, user, query,
\* parameters, fragment, and with a name, an IPv4 and an IPv6 host.
FinalUrls ==
  { \* "https://a/"
    <<"h","t","t","p","s",":","/","/","a","/">>,
    \* "http://a/"
    <<"h","t","t","p",":","/","/","a","/">>,
    \* "https://b/x"
    <<"h","t","t","p","s",":","/","/","b","/","x">>,
    \* "https://a/p?q"
    <<"h","t","t","p","s",":","/","/","a","/","p","?","q">>,
    \* "http://www.a/"
    <<"h","t","t","p",":","/","/","w","w","w",".","a","/">>,
    \* "https://a:8080/x;y"
    <<"h","t","t","p","s",":","/","/","a",":","8","0","8","0","/","x",";","y">>,
    \* "https://[::1]/"
    <<"h","t","t","p","s",":","/","/","[",":",":","1","]","/">>,
    \* "https://[::1]:8443/x"
    <<"h","t","t","p","s",":","/","/","[",":",":","1","]",":","8","4","4","3","/","x">>,
    \* "https://u@a/"
    <<"h","t","t","p","s",":","/","/","u","@","a","/">>,
    \* "https://1.2.3.4/"
    <<"h","t","t","p","s",":","/","/","1",".","2",".","3",".","4","/">>,
    \* "https://a/x/y/"
    <<"h","t","t","p","s",":","/","/","a","/","x","/","y","/">>,
    \* "https://a/#f"
    <<"h","t","t","p","s",":","/","/","a","/","#","f">> }

\* ------------------------------------------------------------------------
\* State
\* ------------------------------------------------------------------------

VARIABLES
  input_url,      \* the argument of is_shopify_site
  pc,             \* "start", "loop" (line 97), "cart" (the response is in
                  \* and /cart.js is about to be asked), "visited" (end of
                  \* a pass), "returned" or "raised"; for a call of
                  \* try_cart_json alone: "try_cart_json", "cart_returned"
                  \* or "cart_raised"
  candidates,     \* the list the loop of line 97 iterates
  idx,            \* number of candidates the loop has consumed
  reasons,        \* the evidence list
  result,         \* the returned tuple
  r,              \* what fetch did in the pass in progress
  cart,           \* what the GET of /cart.js did in that pass
  requests,       \* the GETs issued so far, in order
  failed          \* the candidates whose pass ended in the handler of line
                  \* 148, in order

vars == <<input_url, pc, candidates, idx, reasons, result, r, cart,
          requests, failed>>

\* None, as a URL.
None == <<"None">>

Verdict(isShopify, confidence, final_url, evidence) ==
  [isShopify |-> isShopify, confidence |-> confidence,
   final_url |-> final_url, reasons |-> evidence]

NoResult == Verdict(FALSE, "unset", None, <<>>)

\* One GET: the probe ("main") or /cart.js ("cart").
Get(kind, url) == [kind |-> kind, url |-> url]

InitWith(inputs) ==
  /\ input_url \in inputs
  /\ pc = "start"
  /\ candidates = <<>>
  /\ idx = 0
  /\ reasons = <<>>
  /\ result = NoResult
  /\ r = ProbeError
  /\ cart = NoCart
  /\ requests = <<>>
  /\ failed = <<>>

Init == InitWith(EngineInputs)

InitNorm == InitWith(NormInputs)

\* A call of try_cart_json alone, on one of FinalUrls.
InitCart ==
  /\ input_url = <<>>
  /\ pc = "try_cart_json"
  /\ candidates = <<>>
  /\ idx = 0
  /\ reasons = <<>>
  /\ result = NoResult
  /\ r \in [err : {FALSE}, url : FinalUrls, headers : {<<>>},
            cookies : {<<>>}, text : {<<>>}]
  /\ cart = NoCart
  /\ requests = <<>>
  /\ failed = <<>>

\* ------------------------------------------------------------------------
\* is_shopify_site
\* ------------------------------------------------------------------------

\* s[:n]
Take(s, n) == SubSeq(s, 1, IF Len(s) < n THEN Len(s) ELSE n)

\* What one pass of the loop body yields: whether the function returns,
\* the tuple it returns, and the evidence list it leaves.
Pass(returns, verdict, rs) ==
  [returns |-> returns, verdict |-> verdict, reasons |-> rs]

\* probe_failed as it would be if the handler returned instead of going on.
probe_failed_returns(cand, rs) ==
  LET rs1 == Append(rs, Note("open_failed", cand, <<>>, 0))
  IN Pass(TRUE, Verdict(FALSE, "low", None, rs1), rs1)

\* probe_failed as it would be if the handler started the evidence afresh.
probe_failed_resets(cand, rs) ==
  Pass(FALSE, NoResult, << Note("open_failed", cand, <<>>, 0) >>)

\* Lines 148-152: the pass raised; the failure is noted and the loop goes
\* on.
probe_failed(cand, rs) ==
  Pass(FALSE, NoResult, Append(rs, Note("open_failed", cand, <<>>, 0)))

\* signal_notes as it would be if the marker check ran only when no cookie
\* was found.
signal_notes_elif(resp, rs) ==
  LET sc == shopify_cookies(resp)
      mh == check_body_markers(resp.text)
  IN IF shopify_headers(resp) # <<>>
       THEN Append(rs, Note("headers", <<>>,
                            Take(shopify_headers(resp), 5), 0))
     ELSE IF sc # <<>> THEN Append(rs, Note("cookies", <<>>, Take(sc, 6), 0))
     ELSE IF mh # <<>> THEN Append(rs, Note("markers", <<>>, mh, 0))
     ELSE rs

\* Lines 103-124: the notes appended between the response and the call of
\* try_cart_json: the header note (line 105), or else the cookie note (line
\* 116) and the marker note (line 123).
signal_notes(resp, rs) ==
  LET sc  == shopify_cookies(resp)
      rs1 == IF sc # <<>>
               THEN Append(rs, Note("cookies", <<>>, Take(sc, 6), 0))
               ELSE rs
      mh  == check_body_markers(resp.text)
      rs2 == IF mh # <<>> THEN Append(rs1, Note("markers", <<>>, mh, 0))
             ELSE rs1
  IN IF shopify_headers(resp) # <<>>
       THEN Append(rs, Note("headers", <<>>,
                            Take(shopify_headers(resp), 5), 0))
       ELSE rs2

\* decide_header as it would be if the return of line 111 depended on
\* /cart.js.
decide_header_needs_cart(resp, cj, rs) ==
  IF cj.ok
    THEN Pass(TRUE, Verdict(TRUE, "high", resp.url, Append(rs, cj.reason)),
              Append(rs, cj.reason))
    ELSE Pass(FALSE, NoResult, rs)

\* Lines 108-111: an X-Shopify-* header decides, whatever try_cart_json
\* returned (cj); rs ends with the header note.
decide_header(resp, cj, rs) ==
  LET rs2 == IF cj.ok THEN Append(rs, cj.reason) ELSE rs
  IN Pass(TRUE, Verdict(TRUE, "high", resp.url, rs2), rs2)

\* signal_confidence as it was before the rule of line 134: cookies and
\* markers together still give medium.
signal_confidence_old_rule(cookies, markers) ==
  IF cookies # <<>> \/ markers # <<>> THEN "medium" ELSE "none"

\* signal_confidence as it would be if one signal were enough for high.
signal_confidence_any_high(cookies, markers) ==
  IF cookies # <<>> \/ markers # <<>> THEN "high" ELSE "none"

\* signal_confidence as it would be if one signal alone were rated low.
signal_confidence_one_low(cookies, markers) ==
  IF cookies # <<>> /\ markers # <<>> THEN "high"
  ELSE IF cookies # <<>> \/ markers # <<>> THEN "low"
  ELSE "none"

\* Lines 135-142: the confidence cookies and markers give without /cart.js.
signal_confidence(cookies, markers) ==
  IF cookies # <<>> /\ markers # <<>> THEN "high"
  ELSE IF cookies # <<>> \/ markers # <<>> THEN "medium"
  ELSE "none"

\* decide_signals as it would be if a /cart.js that does not confirm
\* discarded the cookie and marker signals.
decide_signals_cart_gate(resp, cj, rs) ==
  LET rs3 == Append(rs, cj.reason)
  IN IF cj.ok
       THEN Pass(TRUE, Verdict(TRUE, "high", resp.url, rs3), rs3)
     ELSE Pass(FALSE, NoResult,
               Append(rs, Note("no_signal", resp.url, <<>>, 0)))

\* Lines 127-146: no header; try_cart_json returned cj, and rs ends with
\* the cookie and marker notes.
decide_signals(resp, cj, rs) ==
  LET rs3  == Append(rs, cj.reason)
      conf == signal_confidence(shopify_cookies(resp),
                                check_body_markers(resp.text))
  IN IF cj.ok
       THEN Pass(TRUE, Verdict(TRUE, "high", resp.url, rs3), rs3)
     ELSE IF conf # "none"
       THEN Pass(TRUE, Verdict(TRUE, conf, resp.url, rs3), rs)
     ELSE Pass(FALSE, NoResult,
               Append(rs, Note("no_signal", resp.url, <<>>, 0)))

\* Lines 108-146: what the pass does once try_cart_json has returned cj.
decide(resp, cj, rs) ==
  IF shopify_headers(resp) # <<>> THEN decide_header(resp, cj, rs)
  ELSE decide_signals(resp, cj, rs)

\* Line 97, normalize_candidates raises: the call is outside the try of
\* line 98, so the exception leaves is_shopify_site.
NormalizeRaise ==
  /\ pc = "start"
  /\ normalize_raises(input_url)
  /\ pc' = "raised"
  /\ UNCHANGED <<input_url, candidates, idx, reasons, result, r, cart,
                 requests, failed>>

\* Line 97, normalize_candidates returns the list the loop iterates.
NormalizeOk ==
  /\ pc = "start"
  /\ ~normalize_raises(input_url)
  /\ \E cs \in normalize_candidates(input_url) : candidates' = cs
  /\ pc' = "loop"
  /\ UNCHANGED <<input_url, idx, reasons, result, r, cart, requests, failed>>

\* Lines 108-152: the rest of the pass on candidate cand, once
\* try_cart_json is through: it raised and the handler of line 148 notes
\* the failure, or it returned cj.
after_cart(cand, resp, cj, rs) ==
  IF cj.raised THEN probe_failed(cand, rs) ELSE decide(resp, cj, rs)

\* Lines 97-124: the loop takes the next candidate and fetches it. When
\* fetch raises the handler of line 148 notes it; otherwise the notes of
\* the signals of the response are appended and the pass goes on to
\* try_cart_json.
Fetch ==
  /\ pc = "loop"
  /\ idx < Len(candidates)
  /\ \E resp \in ProbeOutcomes(candidates[idx + 1]) :
       LET pass == probe_failed(candidates[idx + 1], reasons)
       IN /\ r' = resp
          /\ IF resp.err
               THEN /\ reasons' = pass.reasons
                    /\ result' = pass.verdict
                    /\ pc' = IF pass.returns THEN "returned" ELSE "visited"
                    /\ failed' = Append(failed, candidates[idx + 1])
               ELSE /\ reasons' = signal_notes(resp, reasons)
                    /\ pc' = "cart"
                    /\ UNCHANGED <<result, failed>>
  /\ idx' = idx + 1
  /\ requests' = Append(requests, Get("main", candidates[idx + 1]))
  /\ UNCHANGED <<input_url, candidates, cart>>

\* Lines 108-146, or 148-152: try_cart_json is called on the final URL of
\* the response. When it raises (urljoin, line 76) no GET is issued and the
\* handler of line 148 notes a failure; otherwise /cart.js is asked and the
\* pass returns a verdict or ends without one.
CartJson ==
  /\ pc = "cart"
  /\ \E cart_url \in {urljoin_cart(r.url)} :
       \E c \in (IF cart_url.raised THEN {NoCart} ELSE CartOutcomes) :
         \E pass \in {after_cart(candidates[idx], r,
                                 try_cart_json(r.url, c), reasons)} :
           /\ cart' = c
           /\ reasons' = pass.reasons
           /\ result' = pass.verdict
           /\ pc' = IF pass.returns THEN "returned" ELSE "visited"
           /\ requests' = IF cart_url.raised THEN requests
                           ELSE Append(requests, Get("cart", cart_url.url))
           /\ failed' = IF cart_url.raised
                           THEN Append(failed, candidates[idx])
                         ELSE failed
  /\ UNCHANGED <<input_url, candidates, idx, r>>

\* Lines 146 and 152 to line 97: the pass is over and its locals are dead;
\* the loop takes the next candidate or ends.
Continue ==
  /\ pc = "visited"
  /\ pc' = "loop"
  /\ r' = ProbeError
  /\ cart' = NoCart
  /\ UNCHANGED <<input_url, candidates, idx, reasons, result, requests, failed>>

\* Lines 154-156: the candidates are exhausted.
Exhausted ==
  /\ pc = "loop"
  /\ idx = Len(candidates)
  /\ result' = Verdict(FALSE, "low", None, reasons)
  /\ pc' = "returned"
  /\ UNCHANGED <<input_url, candidates, idx, reasons, r, cart, requests, failed>>

Next ==
  \/ NormalizeRaise
  \/ NormalizeOk
  \/ Fetch
  \/ CartJson
  \/ Continue
  \/ Exhausted

Spec == Init /\ [][Next]_vars

\* The normalizer alone, on every input of NormInputs.
NextNorm ==
  \/ NormalizeRaise
  \/ NormalizeOk

SpecNorm == InitNorm /\ [][NextNorm]_vars

\* One call of try_cart_json(final_url), with r.url the argument: it
\* raises, or it returns the pair kept in result.
CallCartJson ==
  /\ pc = "try_cart_json"
  /\ \E cart_url \in {urljoin_cart(r.url)} :
       \E c \in (IF cart_url.raised THEN {NoCart} ELSE CartOutcomes) :
         \E cj \in {try_cart_json(r.url, c)} :
           /\ cart' = c
           /\ result' = cj
           /\ pc' = IF cj.raised THEN "cart_raised" ELSE "cart_returned"
           /\ requests' = IF cj.raised THEN requests
                           ELSE << Get("cart", cart_url.url) >>
  /\ UNCHANGED <<input_url, candidates, idx, reasons, r, failed>>

NextCart == CallCartJson

\* try_cart_json alone, on every final URL of FinalUrls.
SpecCart == InitCart /\ [][NextCart]_vars

\* ------------------------------------------------------------------------
\* Properties
\* ------------------------------------------------------------------------

\* The response has a header whose name starts with X-Shopify-, in any
\* letter case.
HasShopifyHeader(resp) ==
  \E i \in 1..Len(resp.headers) :
    startswith(lower(resp.headers[i]), s_x_shopify)

\* The response has a cookie whose name starts with _shopify.
HasShopifyCookie(resp) ==
  \E i \in 1..Len(resp.cookies) :
    startswith(lower(resp.cookies[i]), s__shopify)

\* The body of the response matches a marker pattern.
HasBodyMarker(resp) ==
  \E i \in 1..Len(BODY_MARKERS) : re_search(BODY_MARKERS[i], resp.text)

\* /cart.js answered 200 with a JSON content type and a JSON object that
\* has one of the keys items, token, attributes.
CartSucceeds(c) ==
  /\ ~c.err
  /\ c.status = 200
  /\ startswith(lower(c.ctype), s_app_json)
  /\ c.json.parses /\ c.json.is_dict
  /\ c.json.keys \cap {s_items, s_token, s_attributes} # {}

\* A pass has just probed its candidate successfully; r and cart are what
\* the two GETs of the pass did.
Probed == pc \in {"visited", "returned"} /\ ~r.err

\* The run returned a positive verdict of the given confidence on the
\* final URL of the response of the last pass.
ReturnedOn(confidence) ==
  /\ pc = "returned"
  /\ result.isShopify
  /\ result.confidence = confidence
  /\ result.final_url = r.url

\* C1: a successfully probed response with an X-Shopify-* header ends the
\* run on its candidate with isShopify=true, confidence=high and the final
\* URL of the response, whatever the cookies, the body and /cart.js do.
C1_HeaderDecidesHigh ==
  (Probed /\ HasShopifyHeader(r)) => ReturnedOn("high")

\* C1 happens: a header, no cookie, no marker and a /cart.js that fails on
\* the network, after a redirect.
C1_Witness ==
  /\ Probed /\ HasShopifyHeader(r)
  /\ ~HasShopifyCookie(r) /\ ~HasBodyMarker(r)
  /\ cart.err
  /\ r.url = u_redirect
  /\ pc = "returned"

\* C2: with no X-Shopify-* header, a /cart.js check that succeeds gives
\* isShopify=true, confidence=high, also without cookie and marker.
C2_CartDecidesHigh ==
  (Probed /\ ~HasShopifyHeader(r) /\ CartSucceeds(cart)) => ReturnedOn("high")

\* C2 happens: no header, no cookie, no marker, and /cart.js answers an
\* object with the key token.
C2_Witness ==
  /\ Probed /\ ~HasShopifyHeader(r)
  /\ ~HasShopifyCookie(r) /\ ~HasBodyMarker(r)
  /\ CartSucceeds(cart) /\ cart.json.keys = {s_token}
  /\ pc = "returned"

\* C3: with no X-Shopify-* header and a /cart.js check that does not
\* succeed, a _shopify cookie together with a body marker gives
\* isShopify=true, confidence=high.
C3_CookieAndMarkerHigh ==
  (/\ Probed /\ ~HasShopifyHeader(r) /\ ~CartSucceeds(cart)
   /\ HasShopifyCookie(r) /\ HasBodyMarker(r)) => ReturnedOn("high")

\* C3 happens: cookie and marker, no header, /cart.js answers 404.
C3_Witness ==
  /\ Probed /\ ~HasShopifyHeader(r)
  /\ HasShopifyCookie(r) /\ HasBodyMarker(r)
  /\ ~cart.err /\ cart.status = 404
  /\ pc = "returned"

\* C4: with no X-Shopify-* header and a /cart.js check that does not
\* succeed, exactly one of a _shopify cookie and a body marker gives
\* isShopify=true, confidence=medium.
C4_OneSignalMedium ==
  (/\ Probed /\ ~HasShopifyHeader(r) /\ ~CartSucceeds(cart)
   /\ HasShopifyCookie(r) # HasBodyMarker(r)) => ReturnedOn("medium")

\* C4 happens: a marker alone, /cart.js answers HTML.
C4_Witness ==
  /\ Probed /\ ~HasShopifyHeader(r)
  /\ ~HasShopifyCookie(r) /\ HasBodyMarker(r)
  /\ ~cart.err /\ cart.ctype = ct_html
  /\ pc = "returned" /\ result.confidence = "medium"

\* C5: when every probe of the run fails, the run visits every candidate
\* and returns isShopify=false, confidence=low, no URL, and one failure
\* note per candidate, in candidate order.
C5_AllProbesFail ==
  (pc = "returned" /\ Len(failed) = idx) =>
    /\ idx = Len(candidates)
    /\ requests = [i \in 1..Len(candidates) |-> Get("main", candidates[i])]
    /\ result = Verdict(FALSE, "low", None,
                        [i \in 1..Len(candidates) |->
                           Note("open_failed", candidates[i], <<>>, 0)])

\* C5 happens: four candidates, four failures.
C5_Witness ==
  /\ pc = "returned"
  /\ Len(candidates) = 4
  /\ Len(failed) = 4

\* C6: is_shopify_site returns a verdict on every input and no exception
\* reaches the caller.
C6_NoExceptionReachesCaller == pc # "raised"

\* The input is empty or whitespace only.
IsBlank(s) == \A i \in 1..Len(s) : s[i] \in Whitespace

\* C7: on an empty or whitespace-only input no GET is issued and the run
\* returns isShopify=false, confidence=low, no URL and no evidence.
C7_BlankInputNoNetwork ==
  IsBlank(input_url) =>
    /\ requests = <<>>
    /\ pc # "raised"
    /\ pc = "returned" => result = Verdict(FALSE, "low", None, <<>>)

\* C7 happens: the run on a blank, non-empty input has returned.
C7_Witness ==
  /\ IsBlank(input_url) /\ input_url # <<>>
  /\ pc = "returned"

\* The two URLs of a host, https first.
UrlsOf(h) == << s_https \o h \o s_slash, s_http \o h \o s_slash >>

\* C8: the two URLs of the host derived from the input come before the two
\* URLs of its www-counterpart.
C8_DerivedHostFirst ==
  (pc = "loop" /\ candidates # <<>>) =>
    SubSeq(candidates, 1, 2) = UrlsOf(host_of(strip(input_url)))

\* The input, stripped, has no leading http:// or https://.
NoScheme(s) ==
  LET t == lower(strip_chars(s, Whitespace))
  IN ~startswith(t, s_https) /\ ~startswith(t, s_http)

\* The host of a candidate: what stands between the scheme and the final "/".
HostOfUrl(u) ==
  IF startswith(u, s_https) THEN SubSeq(u, Len(s_https) + 1, Len(u) - 1)
  ELSE SubSeq(u, Len(s_http) + 1, Len(u) - 1)

\* C9: on an input without scheme, every host of the output has its
\* https:// candidate before its http:// candidate.
C9_HttpsBeforeHttp ==
  (pc = "loop" /\ NoScheme(input_url)) =>
    \A i \in 1..Len(candidates) :
      LET u == UrlsOf(HostOfUrl(candidates[i]))
      IN \E j, k \in 1..Len(candidates) :
           j < k /\ candidates[j] = u[1] /\ candidates[k] = u[2]

\* C9 happens: an input without scheme gave four candidates.
C9_Witness ==
  /\ pc = "loop" /\ NoScheme(input_url)
  /\ Len(candidates) = 4

\* C10: the output of normalize_candidates has no URL twice and at most
\* four entries.
C10_DistinctAtMostFour ==
  pc = "loop" =>
    /\ Len(candidates) <= 4
    /\ \A i, j \in 1..Len(candidates) :
         candidates[i] = candidates[j] => i = j

\* C10 happens: a host that starts with "www." gave four candidates.
C10_Witness ==
  /\ pc = "loop"
  /\ Len(candidates) = 4
  /\ startswith(host_of(strip(input_url)), s_www)

\* The hosts of the candidates.
HostsOf(cs) == {HostOfUrl(cs[i]) : i \in 1..Len(cs)}

\* The www-counterpart of a host as C11 words it: one leading "www.", in
\* any letter case, removed, or one "www." prepended.
Counterpart(h) ==
  IF startswith(lower(h), s_www) THEN From(h, Len(s_www) + 1)
  ELSE s_www \o h

\* C11: the host variants of the output are the host derived from the input
\* and its www-counterpart: the host without its leading "www." (in any
\* letter case) when it has one, the host with one "www." prepended when it
\* has none.
C11_WwwCounterpart ==
  (pc = "loop" /\ candidates # <<>>) =>
    LET h == host_of(strip(input_url))
    IN HostsOf(candidates) = {h, Counterpart(h)}

\* The evidence list so far: the returned one once the run has returned.
Evidence == IF pc = "returned" THEN result.reasons ELSE reasons

\* The evidence list has a note of the kind.
HasNote(kind) == \E i \in 1..Len(Evidence) : Evidence[i].kind = kind

\* C12 as stated: the header, the cookie and the marker check each leave
\* their note for every successfully probed response that has the signal,
\* also when the response has an X-Shopify-* header.
C12_AllChecksAlways ==
  Probed =>
    /\ HasShopifyHeader(r) <=> HasNote("headers")
    /\ HasShopifyCookie(r) <=> HasNote("cookies")
    /\ HasBodyMarker(r) <=> HasNote("markers")

\* C12, amended: the header check runs on every successfully probed
\* response; the cookie and the marker check both run, neither suppressing
\* the other, on every such response without X-Shopify-* header; with such
\* a header the evidence has the header note and no cookie or marker note.
C12_ChecksAfterHeader ==
  Probed =>
    /\ HasShopifyHeader(r) <=> HasNote("headers")
    /\ ~HasShopifyHeader(r) =>
         /\ HasShopifyCookie(r) <=> HasNote("cookies")
         /\ HasBodyMarker(r) <=> HasNote("markers")
    /\ HasShopifyHeader(r) => ~HasNote("cookies") /\ ~HasNote("markers")

\* C12 happens: no header, a cookie and a marker, and both notes.
C12_Witness ==
  /\ Probed /\ ~HasShopifyHeader(r)
  /\ HasShopifyCookie(r) /\ HasBodyMarker(r)
  /\ HasNote("cookies") /\ HasNote("markers")

\* The kinds of the messages try_cart_json returns.
CartNoteKinds == {"cart_ok", "cart_negative", "cart_error"}

\* C13: when /cart.js was requested for the candidate the run returned on,
\* the message of the check, success or failure, is in the evidence list of
\* the returned verdict, also when an X-Shopify-* header decided.
C13_CartResultInEvidence ==
  (pc = "returned" /\ Probed) =>
    \E i \in 1..Len(Evidence) :
      /\ Evidence[i].kind \in CartNoteKinds
      /\ Evidence[i].kind = "cart_ok" <=> CartSucceeds(cart)

\* The rank of a verdict: 0 for none or not Shopify, 1 for medium, 2 for
\* high.
RankOf(positive, confidence) ==
  IF ~positive THEN 0
  ELSE IF confidence = "high" THEN 2
  ELSE IF confidence = "medium" THEN 1
  ELSE 0

\* The rank the pass just made has reached.
RankReached ==
  RankOf(pc = "returned" /\ result.isShopify, result.confidence)

\* The rank the same pass reaches when /cart.js does c instead.
RankWith(c) ==
  LET pass == after_cart(candidates[idx], r, try_cart_json(r.url, c), <<>>)
  IN RankOf(pass.returns /\ pass.verdict.isShopify, pass.verdict.confidence)

\* C14: /cart.js is additive only. A pass whose /cart.js check succeeds
\* ends the run with the highest verdict there is, so a run that differs
\* from it in this /cart.js outcome alone cannot end higher, whatever the
\* candidates after it do; it never ranks below the same pass, on the same
\* response, with a /cart.js check that does not succeed; and a check that
\* does not succeed never makes a response with a header, a cookie or a
\* marker not Shopify.
C14_CartAdditiveOnly ==
  Probed =>
    /\ CartSucceeds(cart) => RankReached = 2
    /\ CartSucceeds(cart) =>
         \A c \in CartOutcomes : ~CartSucceeds(c) => RankReached >= RankWith(c)
    /\ (/\ ~CartSucceeds(cart)
        /\ HasShopifyHeader(r) \/ HasShopifyCookie(r) \/ HasBodyMarker(r))
         => pc = "returned" /\ result.isShopify

\* C14 happens: a cookie alone, which gives medium when /cart.js answers
\* 404, and a /cart.js check that succeeds.
C14_Witness ==
  /\ Probed /\ ~HasShopifyHeader(r)
  /\ HasShopifyCookie(r) /\ ~HasBodyMarker(r)
  /\ CartSucceeds(cart)
  /\ RankReached = 2
  /\ \E c \in CartOutcomes : ~c.err /\ c.status = 404 /\ RankWith(c) = 1

\* The URLs of the main probes issued so far, in order.
MainProbes ==
  LET m == SelectSeq(requests, LAMBDA g : g.kind = "main")
  IN [i \in 1..Len(m) |-> m[i].url]

\* The pass just made gave nothing to decide on: the probe failed, or the
\* response had no header, cookie or marker and /cart.js did not confirm.
NothingFound ==
  \/ r.err
  \/ /\ ~HasShopifyHeader(r) /\ ~HasShopifyCookie(r) /\ ~HasBodyMarker(r)
     /\ ~CartSucceeds(cart)

\* The probes follow the candidate list, one per candidate visited; the run
\* goes on to the next candidate only when the pass found nothing; a
\* positive verdict is that of the last candidate probed.
InListOrder ==
  /\ MainProbes = SubSeq(candidates, 1, idx)
  /\ pc = "visited" => NothingFound
  /\ (pc = "returned" /\ result.isShopify) =>
       Probed /\ ~NothingFound /\ result.final_url = r.url

\* C15: candidates are probed in list order, one at a time; candidate i+1
\* is probed only after candidate i failed or gave no signal with a
\* /cart.js check that did not confirm; the run stops at the first
\* decision, and once it has returned nothing is requested or changed.
C15_SequentialFirstDecision ==
  /\ []InListOrder
  /\ [][pc # "returned"]_vars

\* C15 happens: the first candidate failed, the second gave no signal, the
\* third decided and the fourth was never probed.
C15_Witness ==
  /\ pc = "returned" /\ result.isShopify
  /\ Len(candidates) = 4 /\ idx = 3
  /\ Len(failed) = 1 /\ failed[1] = candidates[1]
  /\ Len(requests) = 5

\* C16: a run never ends anywhere but in its verdict, having made at most
\* one main probe and one /cart.js request per candidate visited, at most 8
\* requests in all, and having probed no candidate twice.
C16_EndsDecided ==
  /\ pc \in {"start", "loop", "cart", "visited", "returned"}
  /\ idx <= Len(candidates)
  /\ Len(requests) <= 8
  /\ Len(requests) <= 2 * idx
  /\ \A i, j \in 1..Len(MainProbes) :
       MainProbes[i] = MainProbes[j] => i = j

\* ------------------------------------------------------------------------
\* C17: the evidence is returned in full, in the order it was found
\* ------------------------------------------------------------------------

IsPrefix(s, t) == Len(s) <= Len(t) /\ SubSeq(t, 1, Len(s)) = s

\* The candidates named by the failure notes of an evidence list, in the
\* order of the notes.
RECURSIVE FailureUrls(_)
FailureUrls(ev) ==
  IF ev = <<>> THEN <<>>
  ELSE IF Head(ev).kind = "open_failed"
    THEN <<Head(ev).url>> \o FailureUrls(Tail(ev))
  ELSE FailureUrls(Tail(ev))

\* C17: no step drops or reorders a note appended before it, the returned
\* evidence begins with every note appended during the run, and the notes
\* of the candidates that failed to open come in the order the candidates
\* were visited.
C17_EvidenceInFull ==
  /\ [][/\ IsPrefix(reasons, reasons')
        /\ pc' = "returned" => IsPrefix(reasons', result'.reasons)]_vars
  /\ [](FailureUrls(Evidence) = failed)

\* C17 happens: the first candidate failed to open, the second showed no
\* signal, the third decided, and the verdict carries the notes of all three.
C17_Witness ==
  /\ pc = "returned" /\ result.isShopify
  /\ Len(failed) = 1 /\ idx = 3
  /\ Len(result.reasons) >= 4
  /\ result.reasons[1].kind = "open_failed"
  /\ result.reasons[2].kind = "no_signal"

\* ------------------------------------------------------------------------
\* C18: when try_cart_json succeeds
\* ------------------------------------------------------------------------

\* C18: a call of try_cart_json on the final URL of a response never
\* raises; it returns success exactly when /cart.js answers 200 with a
\* Content-Type that begins with application/json and a JSON object with
\* one of the keys items, token, attributes, and then with the note naming
\* the /cart.js URL; every other answer or a network error comes back as
\* failure with a note of the status and type or of the error.
C18_CartJsonIff ==
  /\ pc # "cart_raised"
  /\ pc = "cart_returned" =>
       /\ result.ok <=> CartSucceeds(cart)
       /\ result.ok => /\ result.reason.kind = "cart_ok"
                       /\ result.reason.url = urljoin_cart(r.url).url
       /\ (~result.ok /\ cart.err) => result.reason.kind = "cart_error"
       /\ (~result.ok /\ ~cart.err /\ ~cart.json.parses /\ cart.status = 200
           /\ startswith(lower(cart.ctype), s_app_json))
            => result.reason.kind = "cart_error"
       /\ (~result.ok /\ ~cart.err
           /\ (cart.json.parses \/ cart.status # 200
               \/ ~startswith(lower(cart.ctype), s_app_json)))
            => /\ result.reason.kind = "cart_negative"
               /\ result.reason.status = cart.status
               /\ result.reason.names = <<lower(cart.ctype)>>

\* C18 happens: try_cart_json was called on "https://a:8080/x;y", /cart.js
\* answered 200 with "Application/JSON; charset=utf-8" and an object that
\* has items, and the call returned success with the note naming
\* "https://a:8080/cart.js".
C18_Witness ==
  /\ pc = "cart_returned"
  /\ r.url = <<"h","t","t","p","s",":","/","/","a",":","8","0","8","0","/","x",";","y">>
  /\ cart.status = 200 /\ cart.ctype = ct_JSON
  /\ s_items \in cart.json.keys
  /\ result.ok /\ ~result.raised
  /\ result.reason.kind = "cart_ok"
  /\ result.reason.url = <<"h","t","t","p","s",":","/","/","a",":","8","0","8","0","/","c","a","r","t",".","j","s">>
  /\ requests = << Get("cart", result.reason.url) >>

\* ------------------------------------------------------------------------
\* C19: no host, no candidates
\* ------------------------------------------------------------------------

\* The hosts a candidate may carry when the parsed URL has the host n: n
\* itself and its www-counterpart.
HostsFrom(n) == {h \in {n, s_www \o n} \cup {From(n, k) : k \in 1..(Len(n) + 1)} :
                   h = n \/ h = s_www \o n \/ s_www \o h = n}

\* C19: when the URL parsed from the scheme-completed input has no host
\* component the candidate list is empty, and otherwise every candidate is
\* https:// or http://, a non-empty host taken from that component, and /.
C19_HostOrNothing ==
  pc = "loop" =>
    LET n == urlparse(raw_https(strip(input_url))).netloc
    IN /\ n = <<>> => candidates = <<>>
       /\ n # <<>> =>
            \A i \in 1..Len(candidates) :
              \E s \in {s_https, s_http} : \E h \in HostsFrom(n) :
                h # <<>> /\ candidates[i] = s \o h \o s_slash

\* ------------------------------------------------------------------------
\* C20: the verdict is consistent with itself
\* ------------------------------------------------------------------------

\* C20: a returned verdict is positive exactly when its confidence is high
\* or medium and exactly when it carries a resolved URL, which is the final
\* URL of the deciding response; it is negative exactly when its confidence
\* is low and it carries no URL.
C20_VerdictConsistent ==
  pc = "returned" =>
    /\ result.isShopify \in BOOLEAN
    /\ result.confidence \in {"high", "medium", "low"}
    /\ result.isShopify <=> result.confidence \in {"high", "medium"}
    /\ result.isShopify <=> result.final_url # None
    /\ result.isShopify => Probed /\ result.final_url = r.url
    /\ ~result.isShopify <=>
         (result.confidence = "low" /\ result.final_url = None)

\* C20 happens: a candidate that redirected decided with medium
\* confidence, and the verdict carries the URL the redirect ended on.
C20_Witness ==
  /\ pc = "returned"
  /\ result.isShopify
  /\ result.confidence = "medium"
  /\ result.final_url = u_redirect
  /\ result.final_url # candidates[idx]

====
